---- MODULE Spec2Model ----
(***************************************************************************)
(* Model of matminer/descriptors/composition_features.py: the per-atom     *)
(* expanders get_magpie_descriptor and get_pymatgen_descriptor and the     *)
(* composite descriptors built on them (elemental-property statistics,    *)
(* valence-orbital fractions, ionic character, cohesive energy).           *)
(*                                                                         *)
(* Numbers.  Amounts of a composition are held as integers in units of     *)
(* 1/AmtDen, so amount 0.5 is AmtDen \div 2.  Table values, attribute      *)
(* values and energies are small non-negative integers standing for the    *)
(* floats of the same value; a quotient is kept as the record              *)
(* [num, den] of its numerator and denominator.                            *)
(***************************************************************************)
EXTENDS Integers, Sequences, FiniteSets, TLC

\* ---------------------------------------------------------------- bounds
MaxElems == 3
MaxStructs == 2
AmtDen == 2

\* ------------------------------------------------------- periodic table
Symbols == <<"H", "He", "Li">>
Elements == {Symbols[i] : i \in 1..Len(Symbols)}

\* Element(el).Z
AtomicNumber(el) == CHOOSE i \in 1..Len(Symbols) : Symbols[i] = el

\* amounts 1 - 1/AmtDen, 1 + 1/AmtDen and 2
Amounts == {AmtDen - 1, AmtDen + 1, 2 * AmtDen}

CompsOfLen(n) ==
    {c \in [1..n -> [el : Elements, amt : Amounts]] :
        \A i, j \in 1..n : i # j => c[i].el # c[j].el}

\* Composition(comp).get_el_amt_dict(), as the sequence of its items in
\* the dict's iteration order
Comps == UNION {CompsOfLen(n) : n \in 0..MaxElems}

\* Composition(el) of a bare element symbol: that element, amount 1.0
SingleElement(el) == <<[el |-> el, amt |-> AmtDen]>>

\* ------------------------------------------------------ python helpers
NoUnit == "<None>"
PyNone == [isNone |-> TRUE, v |-> 0]
PyFloat(x) == [isNone |-> FALSE, v |-> x]

\* int(x) of a non-negative float: truncation (PyIntCeil rounds up instead)
PyIntCeil(amt) == (amt + AmtDen - 1) \div AmtDen
PyInt(amt) == amt \div AmtDen

\* seq[i] with python's 0-based index
PyIndex(seq, i) == seq[i + 1]

Repeat(v, n) == [k \in 1..n |-> v]

RECURSIVE SumSeq(_)
SumSeq(s) == IF s = <<>> THEN 0 ELSE Head(s) + SumSeq(Tail(s))

SeqMin(s) == CHOOSE x \in {s[i] : i \in 1..Len(s)} : \A j \in 1..Len(s) : x <= s[j]
SeqMax(s) == CHOOSE x \in {s[i] : i \in 1..Len(s)} : \A j \in 1..Len(s) : x >= s[j]

\* data_lst.count(x)
Count(s, x) == Cardinality({i \in 1..Len(s) : s[i] = x})

\* ---------------------------------------------- magpie data directory
\* The 22 property names of get_elem_property_attributes
magpie_desc ==
    <<"Number", "MendeleevNumber", "AtomicWeight", "MeltingT", "Column", "Row",
      "CovalentRadius", "Electronegativity", "NsValence", "NpValence", "NdValence",
      "NfValence", "NValance", "NsUnfilled", "NpUnfilled", "NdUnfilled", "NfUnfilled",
      "NUnfilled", "GSvolume_pa", "GSbandgap", "GSmagmom", "SpaceGroupNumber">>

Props == {magpie_desc[i] : i \in 1..Len(magpie_desc)} \cup {"AtomicVolume", "Density"}

\* A file name is the sequence of its pieces, the extension ".table" being
\* a piece of its own: "Number.table" is <<"Number", ".table">>.
ReadmeFile == <<"README.txt">>
TableFile(name) == Append(name, ".table")

\* os.listdir(data_dir): README.txt and one table file per property
DataDir == {ReadmeFile} \cup {TableFile(<<p>>) : p \in Props}

\* datafile.replace('.table', ''): every occurrence of the piece is removed
StripTable(datafile) == SelectSeq(datafile, LAMBDA piece : piece # ".table")

\* available_props
AvailableProps == {StripTable(f) : f \in DataDir}

\* README.txt: each line is the set of descriptor names D for which
\* D + '.table' occurs in the line, and the text after 'Units:' when the
\* line holds 'Units: ' ("" when it does not).
ReadmeLines ==
    << [mentions |-> {"AtomicWeight"}, units |-> ""],
       [mentions |-> {}, units |-> ""],
       [mentions |-> {}, units |-> " amu"],
       [mentions |-> {"MendeleevNumber", "Number"}, units |-> ""],
       [mentions |-> {}, units |-> ""],
       [mentions |-> {}, units |-> ""],
       [mentions |-> {"MeltingT"}, units |-> ""],
       [mentions |-> {}, units |-> ""],
       [mentions |-> {}, units |-> " K"],
       [mentions |-> {}, units |-> ""] >>

VARIABLES
    comp,       \* the composition the calls are made on
    call,       \* the function called last ("none" before the first call)
    arg,        \* its second argument (<<>> when it has none)
    err,        \* the exception the call ended in, "none" when it returned
    ret,        \* the value it returned (<<>> when it raised)
    tup_lst,    \* the per-element record list it built (eldata_tup_lst)
    io          \* the files it opened and lookups it made, in order

vars == <<comp, call, arg, err, ret, tup_lst, io>>

\* descp_file.readlines() of the table file of property p: line k holds the
\* value of atomic number k.  The valence tables give H one s electron, He
\* no valence electron and Li two s and one p electron.
TableLines(p) ==
    CASE p = "Number" -> <<1, 2, 3>>
      [] p = "Row" -> <<1, 1, 2>>
      [] p = "Column" -> <<1, 7, 1>>
      [] p = "Electronegativity" -> <<2, 0, 1>>
      [] p = "AtomicWeight" -> <<1, 4, 7>>
      [] p = "MeltingT" -> <<3, 1, 9>>
      [] p = "NsValence" -> <<1, 0, 2>>
      [] p = "NpValence" -> <<0, 0, 1>>
      [] p = "NdValence" -> <<0, 0, 0>>
      [] p = "NfValence" -> <<0, 0, 0>>
      [] p = "NValance" -> <<1, 0, 3>>
      [] OTHER -> <<5, 3, 3>>

\* ------------------------------------------------ get_magpie_descriptor
Event(op, file, ok) == [op |-> op, file |-> file, ok |-> ok]
Result(e, r, t, log) == [err |-> e, ret |-> r, tup |-> t, io |-> log]

\* descriptor_name + '.table' in line
Mentions(line, name) == Len(name) = 1 /\ name[1] \in line.mentions

\* The loop over the README lines: enumerate(..., 1) numbers the lines from
\* 1, and readme_file_line[lineno + 1] is a 0-based index.
RECURSIVE ReadUnit(_, _, _)
ReadUnit(name, lineno, unit) ==
    IF lineno > Len(ReadmeLines) THEN [err |-> "none", unit |-> unit]
    ELSE IF Mentions(ReadmeLines[lineno], name)
         THEN IF lineno + 1 >= Len(ReadmeLines)
              THEN [err |-> "IndexError", unit |-> unit]
              ELSE LET after == PyIndex(ReadmeLines, lineno + 1)
                   IN ReadUnit(name, lineno + 1,
                               IF after.units # "" THEN after.units ELSE unit)
         ELSE ReadUnit(name, lineno + 1, unit)

\* float(lines[atomic_no - 1]) (TableValueAtZ reads lines[atomic_no] instead)
TableValueAtZ(lines, atomic_no) == PyIndex(lines, atomic_no % Len(lines))
TableValue(lines, atomic_no) == PyIndex(lines, atomic_no - 1)

\* The loop over the elements: one record per element, and its table value
\* once for each atom.
RECURSIVE ExpandTable(_, _, _, _, _, _)
ExpandTable(c, i, lines, name, unit, acc) ==
    IF i > Len(c) THEN acc
    ELSE LET atomic_no == AtomicNumber(c[i].el)
         IN IF atomic_no - 1 >= Len(lines)
            THEN [acc EXCEPT !.err = "IndexError"]
            ELSE LET value == TableValue(lines, atomic_no)
                     rec == [element |-> c[i].el, propname |-> name,
                             propvalue |-> PyFloat(value), propunit |-> unit,
                             amt |-> c[i].amt]
                 IN ExpandTable(c, i + 1, lines, name, unit,
                        [acc EXCEPT !.tup = Append(@, rec),
                                    !.ret = @ \o Repeat(value, PyInt(c[i].amt))])

get_magpie_descriptor(c, descriptor_name) ==
    LET scan == <<Event("listdir", <<>>, TRUE)>>
    IN IF descriptor_name \notin AvailableProps
       THEN Result("ValueError", <<>>, <<>>, scan)
       ELSE LET readme == Append(scan, Event("open", ReadmeFile, TRUE))
                u == ReadUnit(descriptor_name, 1, NoUnit)
                file == TableFile(descriptor_name)
            IN IF u.err # "none" THEN Result(u.err, <<>>, <<>>, readme)
               ELSE IF file \notin DataDir
               THEN Result("IOError", <<>>, <<>>, Append(readme, Event("open", file, FALSE)))
               ELSE LET r == ExpandTable(c, 1, TableLines(descriptor_name[1]),
                                         descriptor_name, u.unit,
                                         Result("none", <<>>, <<>>,
                                                Append(readme, Event("open", file, TRUE))))
                    IN IF r.err # "none" THEN Result(r.err, <<>>, <<>>, r.io) ELSE r

\* ---------------------------------------------- get_pymatgen_descriptor
\* The attribute names the calls are made with: 'X' and 'melting_point' are
\* float attributes of Element, 'is_metal' is a boolean one, and
\* 'bogus' is no attribute of Element.
AttrNames == {"X", "melting_point", "is_metal", "bogus"}

Unitless == {"X", "Z", "ionic_radii", "group", "row", "number", "mendeleev_no"}

\* getattr(Element(el), prop): kind "raise" when Element has no such
\* attribute (AttributeError), "None" when it is undefined for the element,
\* "unit" for a float carrying a unit, "plain" for a value without one.
ElementAttr(el, prop) ==
    CASE prop = "X" ->
            [kind |-> "plain", v |-> PyIndex(<<2, 0, 1>>, AtomicNumber(el) - 1), unit |-> NoUnit]
      [] prop = "melting_point" ->
            IF el = "He" THEN [kind |-> "None", v |-> 0, unit |-> NoUnit]
            ELSE [kind |-> "unit", v |-> 3 + AtomicNumber(el), unit |-> "K"]
      [] prop = "is_metal" ->
            [kind |-> "plain", v |-> IF el = "Li" THEN 1 ELSE 0, unit |-> NoUnit]
      [] OTHER -> [kind |-> "raise", v |-> 0, unit |-> NoUnit]

\* callable(x) is a bool, and a bool is never None
PyCallable(attr) == [isNone |-> FALSE, v |-> IF attr.kind = "method" THEN 1 ELSE 0]

\* The else branch: the record of an element whose attribute is None
\* (SkipNoneRecord records nothing instead)
SkipNoneRecord(lst, el, prop, amt) == lst
AppendNoneRecord(lst, el, prop, amt) ==
    Append(lst, [element |-> el, propname |-> <<prop>>, propvalue |-> PyNone,
                 propunit |-> NoUnit, amt |-> amt])

RECURSIVE ExpandAttr(_, _, _, _)
ExpandAttr(c, i, prop, acc) ==
    IF i > Len(c) THEN acc
    ELSE LET attr == ElementAttr(c[i].el, prop)
         IN IF attr.kind = "raise" THEN [acc EXCEPT !.err = "AttributeError"]
            ELSE IF PyCallable(attr) = PyNone THEN [acc EXCEPT !.err = "ValueError"]
            ELSE IF attr.kind # "None"
            THEN IF prop \notin Unitless /\ attr.kind # "unit"
                 THEN [acc EXCEPT !.err = "AttributeError"]
                 ELSE LET rec == [element |-> c[i].el, propname |-> <<prop>>,
                                  propvalue |-> PyFloat(attr.v),
                                  propunit |-> IF prop \in Unitless THEN NoUnit ELSE attr.unit,
                                  amt |-> c[i].amt]
                      IN ExpandAttr(c, i + 1, prop,
                             [acc EXCEPT !.tup = Append(@, rec),
                                         !.ret = @ \o Repeat(attr.v, PyInt(c[i].amt))])
            ELSE ExpandAttr(c, i + 1, prop,
                     [acc EXCEPT !.tup = AppendNoneRecord(@, c[i].el, prop, c[i].amt)])

get_pymatgen_descriptor(c, prop) ==
    LET r == ExpandAttr(c, 1, prop, Result("none", <<>>, <<>>, <<>>))
    IN IF r.err # "none" THEN Result(r.err, <<>>, <<>>, <<>>) ELSE r

\* -------------------------------------------------- get_cohesive_energy
\* ce_data, the reference cohesive energy of each element
ce_data(el) == PyIndex(<<1, 0, 2>>, AtomicNumber(el) - 1)

\* The entries MPRester().get_data(comp) may return
StructEntries ==
    { [energy_per_atom |-> 2, formation_energy_per_atom |-> 3],
      [energy_per_atom |-> 1, formation_energy_per_atom |-> 5],
      [energy_per_atom |-> 1, formation_energy_per_atom |-> 4] }
StructLists == UNION {[1..n -> StructEntries] : n \in 0..MaxStructs}

\* key=lambda e: e['energy_per_atom'] (SortKeyFormation sorts by the
\* formation energy instead)
SortKeyFormation(e) == e.formation_energy_per_atom
SortKey(e) == e.energy_per_atom

\* sorted(struct_lst, key=...): a stable sort
RECURSIVE InsertSorted(_, _)
InsertSorted(s, e) ==
    IF s = <<>> THEN <<e>>
    ELSE IF SortKey(Head(s)) <= SortKey(e) THEN <<Head(s)>> \o InsertSorted(Tail(s), e)
    ELSE <<e>> \o s

RECURSIVE Sorted(_)
Sorted(s) ==
    IF s = <<>> THEN <<>>
    ELSE InsertSorted(Sorted(SubSeq(s, 1, Len(s) - 1)), s[Len(s)])

\* sum of el_amt_dict[el] * ce_data[el], in units of 1/AmtDen
RECURSIVE ElementalEnergy(_)
ElementalEnergy(c) ==
    IF c = <<>> THEN 0
    ELSE Head(c).amt * ce_data(Head(c).el) + ElementalEnergy(Tail(c))

get_cohesive_energy(c, struct_lst) ==
    LET lookup == <<Event("get_data", <<>>, TRUE)>>
    IN IF Len(struct_lst) > 0
       THEN LET most_stable_entry == Sorted(struct_lst)[1]
                formation_energy == most_stable_entry.formation_energy_per_atom
            IN Result("none",
                      [num |-> AmtDen * formation_energy - ElementalEnergy(c), den |-> AmtDen],
                      <<>>, lookup)
       ELSE Result("ValueError", <<>>, <<>>, lookup)

\* ----------------------------------------- get_elem_property_attributes
\* set(data_lst) is a hash table of NumSlots slots; a float of integer
\* value hashes to that integer.  -1 marks a free slot.
NumSlots == 8
PerturbShift == 5
FreeSlot == -1

RECURSIVE Pow2(_)
Pow2(n) == IF n = 0 THEN 1 ELSE 2 * Pow2(n - 1)

\* The probe sequence of a key: slot i, then i = 5*i + perturb + 1 with
\* perturb shifted right after each probe
RECURSIVE Probe(_, _, _, _)
Probe(table, key, i, perturb) ==
    LET slot == i % NumSlots
    IN IF table[slot] = FreeSlot \/ table[slot] = key THEN slot
       ELSE Probe(table, key, 5 * i + perturb + 1, perturb \div Pow2(PerturbShift))

SetAdd(table, key) == [table EXCEPT ![Probe(table, key, key % NumSlots, key)] = key]

RECURSIVE PySet(_)
PySet(data_lst) ==
    IF data_lst = <<>> THEN [slot \in 0..(NumSlots - 1) |-> FreeSlot]
    ELSE SetAdd(PySet(SubSeq(data_lst, 1, Len(data_lst) - 1)), data_lst[Len(data_lst)])

\* Iterating a set walks its slots in order
RECURSIVE SlotsFrom(_, _)
SlotsFrom(table, slot) ==
    IF slot >= NumSlots THEN <<>>
    ELSE (IF table[slot] = FreeSlot THEN <<>> ELSE <<table[slot]>>) \o SlotsFrom(table, slot + 1)

SetIter(data_lst) == SlotsFrom(PySet(data_lst), 0)

\* max(items, key=data_lst.count): the first item of the largest key
\* (PyMaxLast keeps the last one instead)
RECURSIVE PyMaxLast(_, _)
PyMaxLast(items, data_lst) ==
    IF Len(items) = 1 THEN items[1]
    ELSE LET best == PyMaxLast(SubSeq(items, 1, Len(items) - 1), data_lst)
             last == items[Len(items)]
         IN IF Count(data_lst, last) >= Count(data_lst, best) THEN last ELSE best

RECURSIVE PyMax(_, _)
PyMax(items, data_lst) ==
    IF Len(items) = 1 THEN items[1]
    ELSE LET best == PyMax(SubSeq(items, 1, Len(items) - 1), data_lst)
             last == items[Len(items)]
         IN IF Count(data_lst, last) > Count(data_lst, best) THEN last ELSE best

RECURSIVE SumSquares(_)
SumSquares(s) == IF s = <<>> THEN 0 ELSE Head(s) * Head(s) + SumSquares(Tail(s))

\* desc_stats: min, max, range, mean (a quotient), std (the quotient is its
\* square, the variance) and mode
desc_stats(data_lst) ==
    LET n == Len(data_lst)
        total == SumSeq(data_lst)
    IN << SeqMin(data_lst), SeqMax(data_lst), SeqMax(data_lst) - SeqMin(data_lst),
          [num |-> total, den |-> n],
          [num |-> n * SumSquares(data_lst) - total * total, den |-> n * n],
          PyMax(SetIter(data_lst), data_lst) >>

RECURSIVE ElemPropertyLoop(_, _, _)
ElemPropertyLoop(c, k, acc) ==
    IF k > Len(magpie_desc) THEN acc
    ELSE LET r == get_magpie_descriptor(c, <<magpie_desc[k]>>)
             log == acc.io \o r.io
         IN IF r.err # "none" THEN Result(r.err, <<>>, <<>>, log)
            ELSE IF r.ret = <<>> THEN Result("ValueError", <<>>, <<>>, log)
            ELSE ElemPropertyLoop(c, k + 1,
                     Result("none", Append(acc.ret, desc_stats(r.ret)), <<>>, log))

get_elem_property_attributes(c) ==
    ElemPropertyLoop(c, 1, Result("none", <<>>, <<>>, <<>>))

\* --------------------------------------- get_valence_orbital_attributes
\* The tables read for each element, in the order of the loop body
ValenceOrder == <<"NValance", "NsValence", "NpValence", "NdValence", "NfValence">>

\* One pass of the loop body for element f of amount amt.  The atomic
\* fraction el_frac is amt / total; the sums are kept as the numerators
\* over the common denominator total.
RECURSIVE ValenceBody(_, _, _, _)
ValenceBody(f, amt, k, acc) ==
    IF k > Len(ValenceOrder) \/ acc.err # "none" THEN acc
    ELSE LET r == get_magpie_descriptor(SingleElement(f), <<ValenceOrder[k]>>)
             log == acc.io \o r.io
         IN IF r.err # "none" THEN [acc EXCEPT !.err = r.err, !.io = log]
            ELSE IF r.ret = <<>> THEN [acc EXCEPT !.err = "IndexError", !.io = log]
            ELSE ValenceBody(f, amt, k + 1,
                     [acc EXCEPT !.io = log,
                                 !.sums[ValenceOrder[k]] = @ + amt * PyIndex(r.ret, 0)])

RECURSIVE ValenceLoop(_, _, _)
ValenceLoop(c, i, acc) ==
    IF i > Len(c) \/ acc.err # "none" THEN acc
    ELSE ValenceLoop(c, i + 1, ValenceBody(c[i].el, c[i].amt, 1, acc))

\* avg_x / avg_total_valence: float division raises on a zero divisor
Fraction(sums, p) == [num |-> sums[p], den |-> sums["NValance"]]

get_valence_orbital_attributes(c) ==
    LET acc == ValenceLoop(c, 1, [err |-> "none", io |-> <<>>,
                                  sums |-> [p \in {ValenceOrder[k] : k \in 1..Len(ValenceOrder)} |-> 0]])
    IN IF acc.err # "none" THEN Result(acc.err, <<>>, <<>>, acc.io)
       ELSE IF acc.sums["NValance"] = 0 THEN Result("ZeroDivisionError", <<>>, <<>>, acc.io)
       ELSE Result("none",
                   << Fraction(acc.sums, "NsValence"), Fraction(acc.sums, "NpValence"),
                      Fraction(acc.sums, "NdValence"), Fraction(acc.sums, "NfValence") >>,
                   <<>>, acc.io)

\* -------------------------------------------------- get_ionic_attributes
\* itertools.combinations(elements, 2), as pairs of positions
RECURSIVE PairsFrom(_, _, _)
PairsFrom(n, i, j) ==
    IF i >= n THEN <<>>
    ELSE IF j > n THEN PairsFrom(n, i + 1, i + 2)
    ELSE <<(<<i, j>>)>> \o PairsFrom(n, i, j + 1)

atom_pairs(c) == PairsFrom(Len(c), 1, 2)

\* The ionic character 1 - exp(-0.25 * (XA - XB)^2) grows with (XA - XB)^2
\* and is held as that square, d2.  A term of avg_ionic_char is the weight
\* amt_A * amt_B (over total^2) of one pair and its d2.
RECURSIVE IonicLoop(_, _, _, _)
IonicLoop(c, pairs, k, acc) ==
    IF k > Len(pairs) \/ acc.err # "none" THEN acc
    ELSE LET a == c[pairs[k][1]]
             b == c[pairs[k][2]]
             XA == get_magpie_descriptor(SingleElement(a.el), <<"Electronegativity">>)
             XB == get_magpie_descriptor(SingleElement(b.el), <<"Electronegativity">>)
         IN IF XA.err # "none" THEN [acc EXCEPT !.err = XA.err, !.io = @ \o XA.io]
            ELSE IF XB.err # "none"
            THEN [acc EXCEPT !.err = XB.err, !.io = @ \o XA.io \o XB.io]
            ELSE LET d2 == (XA.ret[1] - XB.ret[1]) * (XA.ret[1] - XB.ret[1])
                 IN IonicLoop(c, pairs, k + 1,
                        [acc EXCEPT !.io = @ \o XA.io \o XB.io,
                                    !.ionic_char = Append(@, d2),
                                    !.avg = Append(@, [weight |-> a.amt * b.amt, d2 |-> d2])])

\* np.max(ionic_char) raises ValueError on an empty list
get_ionic_attributes(c) ==
    LET acc == IonicLoop(c, atom_pairs(c), 1,
                         [err |-> "none", io |-> <<>>, ionic_char |-> <<>>, avg |-> <<>>])
        total == SumSeq([i \in 1..Len(c) |-> c[i].amt])
    IN IF acc.err # "none" THEN Result(acc.err, <<>>, <<>>, acc.io)
       ELSE IF acc.ionic_char = <<>> THEN Result("ValueError", <<>>, <<>>, acc.io)
       ELSE Result("none",
                   [max_ionic_char |-> SeqMax(acc.ionic_char),
                    avg_ionic_char |-> [terms |-> acc.avg, den |-> total * total]],
                   <<>>, acc.io)

\* -------------------------------------------------------- state machine
\* The descriptor names the calls are made with
DescriptorNames ==
    { <<"Number">>, <<"MeltingT">>, <<"README.txt">>, <<"Bogus">>, <<"Number", ".table">> }

\* The table files a call opened, and whether it listed the directory
TablesOpened(log) ==
    {log[k].file : k \in {n \in 1..Len(log) : log[n].op = "open" /\ log[n].ok
                                             /\ log[n].file # ReadmeFile}}
Scans(log) == \E k \in 1..Len(log) : log[k].op = "listdir"

Init ==
    /\ comp \in Comps
    /\ call = "none"
    /\ arg = <<>>
    /\ err = "none"
    /\ ret = <<>>
    /\ tup_lst = <<>>
    /\ io = <<>>

\* A call ends: its outcome replaces the last one.  The module keeps no
\* state from one call to the next.
Finish(fn, a, r) ==
    /\ call' = fn
    /\ arg' = a
    /\ err' = r.err
    /\ ret' = r.ret
    /\ tup_lst' = r.tup
    /\ io' = r.io
    /\ UNCHANGED comp

Call_get_magpie_descriptor ==
    \E name \in DescriptorNames :
        LET r == get_magpie_descriptor(comp, name)
        IN Finish("get_magpie_descriptor", name, r)

Call_get_pymatgen_descriptor ==
    \E prop \in AttrNames :
        LET r == get_pymatgen_descriptor(comp, prop)
        IN Finish("get_pymatgen_descriptor", <<prop>>, r)

Call_get_cohesive_energy ==
    \E struct_lst \in StructLists :
        LET r == get_cohesive_energy(comp, struct_lst)
        IN Finish("get_cohesive_energy", struct_lst, r)

Call_get_elem_property_attributes ==
    LET r == get_elem_property_attributes(comp)
    IN Finish("get_elem_property_attributes", <<>>, r)

Call_get_valence_orbital_attributes ==
    LET r == get_valence_orbital_attributes(comp)
    IN Finish("get_valence_orbital_attributes", <<>>, r)

Call_get_ionic_attributes ==
    LET r == get_ionic_attributes(comp)
    IN Finish("get_ionic_attributes", <<>>, r)

Next ==
    \/ Call_get_magpie_descriptor
    \/ Call_get_pymatgen_descriptor
    \/ Call_get_cohesive_energy
    \/ Call_get_elem_property_attributes
    \/ Call_get_valence_orbital_attributes
    \/ Call_get_ionic_attributes

Spec == Init /\ [][Next]_vars

\* ------------------------------------------------------------ properties
\* floor(amt) of an amount held in units of 1/AmtDen
Floor(amt) == CHOOSE n \in 0..amt : n * AmtDen <= amt /\ amt < (n + 1) * AmtDen

AtomsBefore(cnt, i) == SumSeq([j \in 1..(i - 1) |-> cnt[j]])

\* out is val[1] cnt[1] times, then val[2] cnt[2] times, and so on
IsExpansion(out, cnt, val) ==
    /\ Len(out) = SumSeq(cnt)
    /\ \A i \in 1..Len(cnt) : \A k \in 1..cnt[i] : out[AtomsBefore(cnt, i) + k] = val[i]

FloorCounts(c) == [i \in 1..Len(c) |-> Floor(c[i].amt)]

\* C1: a returning get_magpie_descriptor call yields, for each element of
\* the composition in its iteration order, the value on line
\* atomic_number - 1 of the property's table repeated floor(amount) times;
\* the length of the result is the sum of the floor(amount).
C1_PerAtomExpansion ==
    (call = "get_magpie_descriptor" /\ err = "none") =>
        IsExpansion(ret, FloorCounts(comp),
                    [i \in 1..Len(comp) |-> TableLines(arg[1])[AtomicNumber(comp[i].el)]])

C1_Witness ==
    /\ call = "get_magpie_descriptor"
    /\ err = "none"
    /\ Len(comp) = 2
    /\ \E i \in 1..2 : comp[i].amt = AmtDen + 1
    /\ Len(ret) >= 3
    /\ ret[1] # ret[Len(ret)]

\* C2 as stated: a returning get_magpie_descriptor call yields an empty
\* sequence only if the composition is empty.
C2_EmptyOnlyIfCompositionEmpty ==
    (call = "get_magpie_descriptor" /\ err = "none" /\ ret = <<>>) => comp = <<>>

\* C2 amended: a returning get_magpie_descriptor call yields an empty
\* sequence exactly when every amount of the composition is below 1 (which
\* includes the empty composition); one amount of at least 1 gives an entry.
C2_EmptyIffAllAmountsBelowOne ==
    (call = "get_magpie_descriptor" /\ err = "none") =>
        (ret = <<>> <=> \A i \in 1..Len(comp) : comp[i].amt < AmtDen)

C2_Witness ==
    /\ call = "get_magpie_descriptor"
    /\ err = "none"
    /\ comp # <<>>
    /\ \A i \in 1..Len(comp) : comp[i].amt < AmtDen
    /\ ret = <<>>

\* C3: the data directory is listed at most once and a table file is opened
\* at most once: not twice by the get_magpie_descriptor calls that one call
\* makes, and not by two calls that follow each other.
C3_LoadedAtMostOnce ==
    /\ [](LET scans == {k \in 1..Len(io) : io[k].op = "listdir"}
              opens == {k \in 1..Len(io) : io[k].op = "open" /\ io[k].file # ReadmeFile}
          IN /\ Cardinality(scans) <= 1
             /\ \A k, n \in opens : io[k].file = io[n].file => k = n)
    /\ [][/\ TablesOpened(io) \cap TablesOpened(io') = {}
          /\ ~(Scans(io) /\ Scans(io'))]_vars

\* C4: get_magpie_descriptor called with a name that is not the name of a
\* table file's property raises ValueError having opened no file and
\* returns nothing, and a name that passes the catalog check has a table
\* file.
C4_UnknownPropertyRejected ==
    call = "get_magpie_descriptor" =>
        /\ arg \notin {<<p>> : p \in Props} =>
              /\ err = "ValueError"
              /\ \A k \in 1..Len(io) : io[k].op # "open"
              /\ ret = <<>>
        /\ arg \in AvailableProps => TableFile(arg) \in DataDir

IsNoneFor(el, prop) == ElementAttr(el, prop).kind = "None"

\* C5: a returning get_pymatgen_descriptor call has built one record per
\* element of the composition, in order, with value None and unit None
\* exactly for the elements whose attribute is None, and returns
\* floor(amount) entries for each element whose attribute is defined and
\* none for the others; a float attribute that is None for an element makes
\* no call raise.
C5_NoneRecordedButSkipped ==
    call = "get_pymatgen_descriptor" =>
        /\ err = "none" =>
              /\ Len(tup_lst) = Len(comp)
              /\ \A i \in 1..Len(comp) :
                    /\ tup_lst[i].element = comp[i].el
                    /\ tup_lst[i].amt = comp[i].amt
                    /\ tup_lst[i].propvalue.isNone <=> IsNoneFor(comp[i].el, arg[1])
                    /\ IsNoneFor(comp[i].el, arg[1]) => tup_lst[i].propunit = NoUnit
                    /\ ~IsNoneFor(comp[i].el, arg[1]) =>
                           tup_lst[i].propvalue.v = ElementAttr(comp[i].el, arg[1]).v
              /\ IsExpansion(ret,
                     [i \in 1..Len(comp) |->
                         IF IsNoneFor(comp[i].el, arg[1]) THEN 0 ELSE Floor(comp[i].amt)],
                     [i \in 1..Len(comp) |-> ElementAttr(comp[i].el, arg[1]).v])
        /\ (\A i \in 1..Len(comp) : ElementAttr(comp[i].el, arg[1]).kind \in {"None", "unit"})
              => err = "none"

C5_Witness ==
    /\ call = "get_pymatgen_descriptor"
    /\ err = "none"
    /\ Len(comp) = 2
    /\ IsNoneFor(comp[1].el, arg[1])
    /\ comp[1].amt >= AmtDen
    /\ comp[2].amt >= AmtDen
    /\ Len(tup_lst) = 2
    /\ Len(ret) = Floor(comp[2].amt)

\* C6: get_ionic_attributes of a single-element composition does not raise.
C6_SingleElementDoesNotRaise ==
    (call = "get_ionic_attributes" /\ Len(comp) = 1) => err = "none"

WeightedValence(c) ==
    SumSeq([i \in 1..Len(c) |-> c[i].amt * TableLines("NValance")[AtomicNumber(c[i].el)]])

\* C7: get_valence_orbital_attributes of a composition whose weighted total
\* valence is zero ends in UndefinedRatioError or returns four undefined
\* fractions, and otherwise returns the four fractions of the total.
C7_ZeroValenceExplicit ==
    (call = "get_valence_orbital_attributes" /\ comp # <<>>) =>
        IF WeightedValence(comp) = 0
        THEN \/ err = "UndefinedRatioError"
             \/ err = "none" /\ \A k \in 1..4 : ret[k].den = 0
        ELSE /\ err = "none"
             /\ \A k \in 1..4 : ret[k].den = WeightedValence(comp)

Lookups == Cardinality({k \in 1..Len(io) : io[k].op = "get_data"})

\* The first entry of the lowest energy_per_atom
MostStable(struct_lst) ==
    CHOOSE k \in 1..Len(struct_lst) :
        /\ \A n \in 1..Len(struct_lst) :
              struct_lst[k].energy_per_atom <= struct_lst[n].energy_per_atom
        /\ \A n \in 1..(k - 1) :
              struct_lst[n].energy_per_atom > struct_lst[k].energy_per_atom

\* C8: get_cohesive_energy makes exactly one formation-energy lookup; on an
\* empty answer it raises the no-structure ValueError, and otherwise it
\* returns the formation energy of the entry of lowest energy_per_atom less
\* the sum over the elements of amount * reference cohesive energy.
C8_CohesiveEnergy ==
    call = "get_cohesive_energy" =>
        /\ Lookups = 1
        /\ Len(arg) = 0 => err = "ValueError"
        /\ Len(arg) > 0 =>
              /\ err = "none"
              /\ ret.den = AmtDen
              /\ ret.num = AmtDen * arg[MostStable(arg)].formation_energy_per_atom
                           - SumSeq([i \in 1..Len(comp) |-> comp[i].amt * ce_data(comp[i].el)])

C8_Witness ==
    /\ call = "get_cohesive_energy"
    /\ err = "none"
    /\ Len(arg) = 2
    /\ arg[2].energy_per_atom < arg[1].energy_per_atom
    /\ arg[2].formation_energy_per_atom > arg[1].formation_energy_per_atom
    /\ Len(comp) = 2
    /\ ret.num = AmtDen * arg[2].formation_energy_per_atom
                 - SumSeq([i \in 1..Len(comp) |-> comp[i].amt * ce_data(comp[i].el)])

\* The per-atom values of row k of get_elem_property_attributes
RowData(k) == get_magpie_descriptor(comp, <<magpie_desc[k]>>).ret

MaxCount(data_lst) ==
    CHOOSE m \in 1..Len(data_lst) :
        /\ \E i \in 1..Len(data_lst) : Count(data_lst, data_lst[i]) = m
        /\ \A i \in 1..Len(data_lst) : Count(data_lst, data_lst[i]) <= m

\* The value of the largest count that a scan of the sequence meets first
FirstInScan(data_lst) ==
    data_lst[CHOOSE i \in 1..Len(data_lst) :
                /\ Count(data_lst, data_lst[i]) = MaxCount(data_lst)
                /\ \A j \in 1..(i - 1) : Count(data_lst, data_lst[j]) < MaxCount(data_lst)]

PositionIn(items, x) == CHOOSE k \in 1..Len(items) : items[k] = x

\* C9 as stated: the mode of each row of get_elem_property_attributes is a
\* value of the largest count in the per-atom sequence, and among the values
\* of that count the one the sequence holds first.
C9_ModeFirstInScan ==
    (call = "get_elem_property_attributes" /\ err = "none") =>
        \A k \in 1..Len(magpie_desc) :
            /\ Count(RowData(k), ret[k][6]) = MaxCount(RowData(k))
            /\ ret[k][6] = FirstInScan(RowData(k))

\* C9 amended: the mode of each row of get_elem_property_attributes is a
\* value of the largest count in the per-atom sequence, and among the values
\* of that count the one that comes first when the set of the distinct
\* values is iterated, which is fixed by the sequence.
C9_ModeFirstInSetOrder ==
    (call = "get_elem_property_attributes" /\ err = "none") =>
        \A k \in 1..Len(magpie_desc) :
            LET data_lst == RowData(k)
                mode == ret[k][6]
            IN /\ Count(data_lst, mode) = MaxCount(data_lst)
               /\ \A i \in 1..Len(data_lst) :
                     (data_lst[i] # mode /\ Count(data_lst, data_lst[i]) = MaxCount(data_lst))
                        => PositionIn(SetIter(data_lst), mode)
                              < PositionIn(SetIter(data_lst), data_lst[i])

C9_Witness ==
    /\ call = "get_elem_property_attributes"
    /\ err = "none"
    /\ \E k \in 1..Len(magpie_desc) :
          /\ ret[k][6] # FirstInScan(RowData(k))
          /\ Count(RowData(k), ret[k][6]) = Count(RowData(k), FirstInScan(RowData(k)))

\* C10: get_pymatgen_descriptor called on a non-empty composition with a
\* name that is no attribute of Element raises the invalid-attribute
\* ValueError.
C10_InvalidAttributeValueError ==
    (call = "get_pymatgen_descriptor" /\ comp # <<>>
        /\ ElementAttr(comp[1].el, arg[1]).kind = "raise") => err = "ValueError"
====
